---- MODULE Spec2Model ----
(***************************************************************************)
(* Monte Carlo Tree Search of mcts_vanilla.py and mcts_modified.py.        *)
(*                                                                         *)
(* One run of think(board, current_state) is modelled, for either variant. *)
(* The search tree is an arena: a node is named by the sequence of actions *)
(* leading to it from the root (so parent and parent_action are the path   *)
(* without its last element, and that last element), and `tree` maps every *)
(* node that exists to its fields.  The Board is a small subtraction game; *)
(* its actions are 4-tuples, as the rollout heuristic of mcts_modified     *)
(* reads action[2] and action[3].                                          *)
(***************************************************************************)
EXTENDS Integers, Sequences, FiniteSets, TLC

VARIABLES
    variant,        \* which module's think is running: "vanilla" | "modified"
    takes,          \* the Board: the amounts a move may take, in legal_actions order
    num_nodes,      \* the module constant num_nodes (number of iterations)
    root_state,     \* think's argument current_state
    bot_identity,   \* think's bot_identity
    tree,           \* the nodes reachable from root_node: path -> MCTSNode fields
    iter,           \* completed iterations of think's for loop
    pc,             \* position in think
    node,           \* think's / traverse_nodes' variable node (a path)
    state,          \* think's / traverse_nodes' variable state
    identity,       \* the bot_identity argument of the current traverse_nodes call
    rollout_state,  \* rollout's current_state
    applied,        \* <<state, action>> of the last next_state call in rollout, or <<>>
    won,            \* result of is_win
    bp_node,        \* backpropagate's current node
    best_action,    \* think's return value
    error           \* the exception that ended think, "" if none

vars == <<variant, takes, num_nodes, root_state, bot_identity, tree, iter, pc,
          node, state, identity, rollout_state, applied, won, bp_node,
          best_action, error>>

(***************************************************************************)
(* Bounds of the model.                                                    *)
(***************************************************************************)
MaxPile == 4
MaxIter == 6
MaxIterFair == 3
MinIterE2E == 50

(***************************************************************************)
(* Python values.                                                          *)
(***************************************************************************)
None == <<>>
PyInt(b) == IF b THEN 1 ELSE 0          \* True == 1 and False == 0 in Python
Inf == 1000000000                       \* float('inf')

Range(s) == {s[i] : i \in 1..Len(s)}
Last(s) == s[Len(s)]
Parent(p) == SubSeq(p, 1, Len(p) - 1)
IsPrefix(p, q) == Len(p) <= Len(q) /\ SubSeq(q, 1, Len(p)) = p

RECURSIVE RemoveFirst(_, _)
RemoveFirst(s, x) ==                    \* list.remove(x)
    IF s = <<>> THEN <<>>
    ELSE IF Head(s) = x THEN Tail(s)
    ELSE <<Head(s)>> \o RemoveFirst(Tail(s), x)

(***************************************************************************)
(* The Board (p2_t3 is not part of the sources; modelled from the          *)
(* interface of section 6 of the specification).  A state is a pile and    *)
(* the player to move; a move takes one of the amounts of `takes` that the *)
(* pile still holds.  The game is ended when no move is legal; the player  *)
(* who emptied the pile wins, a pile that cannot be emptied is a draw.     *)
(***************************************************************************)
TakeRules == {<<1, 2>>, <<2, 1>>, <<2, 3>>}
Take(k) == <<0, 0, k, k>>
States == [pile : 0..MaxPile, turn : {1, 2}]

legal_actions(b, s) ==
    LET ks == SelectSeq(b, LAMBDA k : k <= s.pile)
    IN  [i \in 1..Len(ks) |-> Take(ks[i])]
is_ended(b, s) == legal_actions(b, s) = <<>>
current_player(s) == s.turn
next_state(s, a) == [pile |-> s.pile - a[3], turn |-> 3 - s.turn]
points_values(b, s) ==
    IF ~is_ended(b, s) THEN None
    ELSE [p \in {1, 2} |->
            IF s.pile # 0 THEN 0 ELSE IF p = 3 - s.turn THEN 1 ELSE -1]

RECURSIVE StateAt(_, _)
StateAt(s, p) ==                        \* the state the actions of path p lead to
    IF p = <<>> THEN s ELSE StateAt(next_state(s, Head(p)), Tail(p))

(***************************************************************************)
(* MCTSNode (mcts_node is not part of the sources; modelled from section 3 *)
(* of the specification and from its uses).                                *)
(***************************************************************************)
MCTSNode(action_list) ==
    [visits |-> 0, wins |-> 0, untried_actions |-> action_list, child_nodes |-> <<>>]

\* node.child_nodes[action] = MCTSNode(node, action, action_list): a dict keeps
\* the position of a key it already holds, and the node it held is dropped.
SetChild(t, p, a, action_list) ==
    LET c    == Append(p, a)
        keys == t[p].child_nodes
        dom  == {q \in DOMAIN t : ~IsPrefix(c, q)} \cup {c}
    IN  [q \in dom |->
            IF q = c THEN MCTSNode(action_list)
            ELSE IF q = p
                 THEN [t[p] EXCEPT !.child_nodes =
                          IF a \in Range(keys) THEN keys ELSE Append(keys, a)]
                 ELSE t[q]]

(***************************************************************************)
(* math.log and math.sqrt, in fixed point: log(P) is scaled by Scale^2 and *)
(* scores by Scale.                                                        *)
(***************************************************************************)
Scale == 10000
explore_faction == 2
LogTable == <<
    0, 69314718, 109861228, 138629436, 160943791, 179175946, 194591014,
    207944154, 219722457, 230258509, 239789527, 248490664, 256494935,
    263905732, 270805020, 277258872, 283321334, 289037175, 294443897,
    299573227, 304452243, 309104245, 313549421, 317805383, 321887582,
    325809653, 329583686, 333220451, 336729582, 340119738, 343398720,
    346573590, 349650756, 352636052, 355534806, 358351893, 361091791,
    363758615, 366356164, 368887945, 371357206, 373766961, 376120011,
    378418963, 380666248, 382864139, 385014760, 387120101, 389182029,
    391202300, 393182563, 395124371, 397029191, 398898404, 400733318,
    402535169, 404305126, 406044301, 407753744, 409434456, 411087386,
    412713438, 414313472, 415888308 >>
log(x) == LogTable[x]

RECURSIVE SqrtBetween(_, _, _)
SqrtBetween(x, lo, hi) ==               \* the r in lo..hi with r*r <= x < (r+1)*(r+1)
    IF lo = hi THEN lo
    ELSE LET mid == (lo + hi + 1) \div 2
         IN  IF mid * mid <= x THEN SqrtBetween(x, mid, hi)
             ELSE SqrtBetween(x, lo, mid - 1)
sqrt(x) == SqrtBetween(x, 0, 46340)

\* explore_faction * sqrt(log(parent.visits) / node.visits)
Exploration(pv, v) == sqrt((explore_faction * explore_faction * log(pv)) \div v)

(***************************************************************************)
(* ucb.  A result is [error, value]: error names the exception the call    *)
(* raises ("" if none), value is the score scaled by Scale.                *)
(***************************************************************************)
Raise(e) == [error |-> e, value |-> 0]
Value(x) == [error |-> "", value |-> x]

\* mcts_vanilla.ucb(node), node being the child at path c
ucb_vanilla(t, c) ==
    LET n == t[c]
        p == t[Parent(c)]
    IN  IF p.visits # 0
        THEN IF n.visits = 0 THEN Raise("ZeroDivisionError")
             ELSE Value((n.wins * Scale) \div n.visits + Exploration(p.visits, n.visits))
        ELSE Value(0)

\* scoring a child without visits 0 instead of inf
ucb_unvisited_scores_zero(t, c, is_opponent) ==
    LET n == t[c]
        p == t[Parent(c)]
    IN  IF n.visits = 0 THEN Value(0)
        ELSE IF p.visits = 0 THEN Raise("ValueError")
        ELSE IF is_opponent
             THEN Value(Scale - (n.wins * Scale) \div n.visits
                        + Exploration(p.visits, n.visits))
             ELSE Value((n.wins * Scale) \div n.visits
                        + Exploration(p.visits, n.visits))

\* mcts_modified.ucb(node, is_opponent), node being the child at path c
ucb_modified(t, c, is_opponent) ==
    LET n == t[c]
        p == t[Parent(c)]
    IN  IF n.visits = 0 THEN Value(Inf)
        ELSE IF p.visits = 0 THEN Raise("ValueError")
        ELSE IF is_opponent
             THEN Value(Scale - (n.wins * Scale) \div n.visits
                        + Exploration(p.visits, n.visits))
             ELSE Value((n.wins * Scale) \div n.visits
                        + Exploration(p.visits, n.visits))

(***************************************************************************)
(* The selection loops.  A result is [error, best]: best is the key of the *)
(* child selected, None if the loop selected none.                         *)
(***************************************************************************)
\* mcts_vanilla.get_best_action: the loop from child i on, with the incumbent
RECURSIVE BestUcbVanilla(_, _, _, _, _)
BestUcbVanilla(t, p, i, best, highest) ==
    LET keys == t[p].child_nodes
    IN  IF i > Len(keys) THEN [error |-> "", best |-> best]
        ELSE LET u == ucb_vanilla(t, Append(p, keys[i]))
             IN  IF u.error # "" THEN [error |-> u.error, best |-> None]
                 ELSE IF u.value >= highest
                      THEN BestUcbVanilla(t, p, i + 1, keys[i], u.value)
                      ELSE BestUcbVanilla(t, p, i + 1, best, highest)
get_best_action_vanilla(t, p) == BestUcbVanilla(t, p, 1, None, 0)

\* a strict comparison, which keeps the incumbent on a tie
UcbReplacesStrict(child_ucb, highest_winrate) == child_ucb > highest_winrate

UcbReplaces(child_ucb, highest_winrate) == child_ucb >= highest_winrate

\* the loop of mcts_modified.traverse_nodes; best_node starts as the node itself,
\* which is reported as None here (it is kept only when there is no child)
RECURSIVE BestUcbModified(_, _, _, _, _, _)
BestUcbModified(t, p, is_opponent, i, best, highest) ==
    LET keys == t[p].child_nodes
    IN  IF i > Len(keys) THEN [error |-> "", best |-> best]
        ELSE LET u == ucb_modified(t, Append(p, keys[i]), is_opponent)
             IN  IF u.error # "" THEN [error |-> u.error, best |-> None]
                 ELSE IF UcbReplaces(u.value, highest)
                      THEN BestUcbModified(t, p, is_opponent, i + 1, keys[i], u.value)
                      ELSE BestUcbModified(t, p, is_opponent, i + 1, best, highest)
best_child_modified(t, p, is_opponent) == BestUcbModified(t, p, is_opponent, 1, None, 0)

\* mcts_modified.get_best_action: the win rate wins/visits is kept as the exact
\* fraction hw/hv (highest_winrate = 0 is 0/1)
\* comparing the win counts instead of the win rates
WinrateReplacesByWins(w, v, hw, hv) == w >= hw

WinrateReplaces(w, v, hw, hv) == w * hv >= hw * v

RECURSIVE BestWinrate(_, _, _, _, _, _)
BestWinrate(t, p, i, best, hw, hv) ==
    LET keys == t[p].child_nodes
    IN  IF i > Len(keys) THEN [error |-> "", best |-> best]
        ELSE LET n == t[Append(p, keys[i])]
             IN  IF n.visits = 0 THEN [error |-> "ZeroDivisionError", best |-> None]
                 ELSE IF WinrateReplaces(n.wins, n.visits, hw, hv)
                      THEN BestWinrate(t, p, i + 1, keys[i], n.wins, n.visits)
                      ELSE BestWinrate(t, p, i + 1, best, hw, hv)
get_best_action_modified(t, p) == BestWinrate(t, p, 1, None, 0, 1)

get_best_action(v, t, p) ==
    IF v = "vanilla" THEN get_best_action_vanilla(t, p)
    ELSE get_best_action_modified(t, p)

(***************************************************************************)
(* expand_leaf.                                                            *)
(***************************************************************************)
\* adding the child without removing its action from untried_actions
expand_leaf_keeps_untried(t, b, p, s, a) ==
    SetChild(t, p, a, legal_actions(b, next_state(s, a)))

\* mcts_vanilla.expand_leaf for the drawn action a: the tree afterwards
expand_leaf_vanilla(t, b, p, s, a) ==
    LET new_state == next_state(s, a)
        added     == SetChild(t, p, a, legal_actions(b, new_state))
    IN  [added EXCEPT ![p].untried_actions = RemoveFirst(@, a)]

\* mcts_modified.expand_leaf: the loop from the i-th untried action on
RECURSIVE ExpandAll(_, _, _, _, _)
ExpandAll(t, b, p, s, i) ==
    LET acts == t[p].untried_actions
    IN  IF i > Len(acts) THEN t
        ELSE ExpandAll(SetChild(t, p, acts[i], legal_actions(b, next_state(s, acts[i]))),
                       b, p, s, i + 1)
expand_leaf_modified(t, b, p, s) == ExpandAll(t, b, p, s, 1)

(***************************************************************************)
(* rollout: the actions the loop body may apply in state s.                *)
(***************************************************************************)
\* drawing among all the moves of the board, legal in s or not
rollout_any_move(b, s) == {Take(b[i]) : i \in 1..Len(b)}

rollout_vanilla(b, s) == Range(legal_actions(b, s))

\* the last legal action with action[2] == 1 and action[3] == 1, else any
rollout_modified(b, s) ==
    LET flagged == SelectSeq(legal_actions(b, s), LAMBDA a : a[3] = 1 /\ a[4] = 1)
    IN  IF flagged # <<>> THEN {Last(flagged)} ELSE Range(legal_actions(b, s))

\* leaving the loop one move early, when a single legal action is left
rollout_returns_early(b, s) == Len(legal_actions(b, s)) <= 1

\* rollout's loop condition: while (not board.is_ended(current_state))
rollout_returns(b, s) == is_ended(b, s)

rollout_choices(v, b, s) ==
    IF v = "vanilla" THEN rollout_vanilla(b, s) ELSE rollout_modified(b, s)

(***************************************************************************)
(* backpropagate: the tree after the statements executed at node p.        *)
(***************************************************************************)
\* mcts_vanilla: the root is counted only when the call starts at it, and never
\* gets a win; every other node is counted in the while loop
backpropagate_vanilla(t, p, w) ==
    IF p = <<>> THEN [t EXCEPT ![p].visits = @ + 1]
    ELSE [t EXCEPT ![p].visits = @ + 1, ![p].wins = @ + PyInt(w)]

\* counting the win but not the visit of a won simulation
backpropagate_win_without_visit(t, p, w) ==
    IF w THEN [t EXCEPT ![p].wins = @ + 1] ELSE [t EXCEPT ![p].visits = @ + 1]

\* a backpropagation that counts the simulation at the leaf only
backpropagate_leaf_only(t, p, w) ==
    IF t[p].child_nodes # <<>> THEN t
    ELSE [t EXCEPT ![p].visits = @ + 1, ![p].wins = @ + PyInt(w)]

backpropagate_modified(t, p, w) ==
    [t EXCEPT ![p].visits = @ + 1, ![p].wins = @ + PyInt(w)]

(***************************************************************************)
(* think.                                                                  *)
(***************************************************************************)
Halt(e) == pc' = "error" /\ error' = e

Start(variants, iterations) ==
    /\ variant \in variants
    /\ takes \in TakeRules
    /\ num_nodes \in iterations
    /\ root_state \in {s \in States : ~is_ended(takes, s)}
    /\ bot_identity = current_player(root_state)
    /\ tree = [p \in {<<>>} |-> MCTSNode(legal_actions(takes, root_state))]
    /\ iter = 0
    /\ pc = "loop"
    /\ node = <<>>
    /\ state = root_state
    /\ identity = bot_identity
    /\ rollout_state = root_state
    /\ applied = <<>>
    /\ won = FALSE
    /\ bp_node = <<>>
    /\ best_action = None
    /\ error = ""

Init == Start({"vanilla", "modified"}, 1..MaxIter)

\* for _ in range(num_nodes): state = current_state; node = root_node
think_iterate ==
    /\ pc = "loop" /\ iter < num_nodes
    /\ pc' = "traverse"
    /\ node' = <<>>
    /\ state' = root_state
    /\ identity' = bot_identity
    /\ UNCHANGED <<variant, takes, num_nodes, root_state, bot_identity, tree, iter,
                   rollout_state, applied, won, bp_node, best_action, error>>

\* a traversal that stops at the first node that still has untried actions
traverse_nodes_stops_at_untried ==
    /\ pc = "traverse" /\ variant = "vanilla"
    /\ IF Len(tree[node].child_nodes) = 0 \/ tree[node].untried_actions # <<>>
       THEN /\ pc' = IF tree[node].untried_actions # <<>> THEN "expand" ELSE "simulate"
            /\ UNCHANGED <<node, state, error>>
       ELSE LET r == get_best_action_vanilla(tree, node)
            IN  IF r.error # "" THEN Halt(r.error) /\ UNCHANGED <<node, state>>
                ELSE IF r.best = None
                     THEN Halt("AttributeError") /\ UNCHANGED <<node, state>>
                     ELSE /\ node' = Append(node, r.best)
                          /\ state' = next_state(state, r.best)
                          /\ UNCHANGED <<pc, error>>
    /\ UNCHANGED <<variant, takes, num_nodes, root_state, bot_identity, tree, iter,
                   identity, rollout_state, applied, won, bp_node, best_action>>

\* one call of mcts_vanilla.traverse_nodes; the call returning to think is followed
\* by think's test of node.untried_actions
traverse_nodes_vanilla ==
    /\ pc = "traverse" /\ variant = "vanilla"
    /\ IF Len(tree[node].child_nodes) = 0
       THEN /\ pc' = IF tree[node].untried_actions # <<>> THEN "expand" ELSE "simulate"
            /\ UNCHANGED <<node, state, error>>
       ELSE LET r == get_best_action_vanilla(tree, node)
            IN  IF r.error # "" THEN Halt(r.error) /\ UNCHANGED <<node, state>>
                ELSE IF r.best = None
                     THEN Halt("AttributeError") /\ UNCHANGED <<node, state>>
                     ELSE /\ node' = Append(node, r.best)
                          /\ state' = next_state(state, r.best)
                          /\ UNCHANGED <<pc, error>>
    /\ UNCHANGED <<variant, takes, num_nodes, root_state, bot_identity, tree, iter,
                   identity, rollout_state, applied, won, bp_node, best_action>>

\* the bulk expansion returning its last child with the state of its first
traverse_nodes_returns_first_state ==
    /\ pc = "traverse" /\ variant = "modified"
    /\ IF is_ended(takes, state)
       THEN /\ pc' = "simulate"
            /\ UNCHANGED <<node, state, identity, tree, error>>
       ELSE IF tree[node].child_nodes = <<>>
       THEN IF tree[node].visits = 0
            THEN /\ pc' = "simulate"
                 /\ UNCHANGED <<node, state, identity, tree, error>>
            ELSE IF tree[node].untried_actions = <<>>
                 THEN Halt("UnboundLocalError") /\ UNCHANGED <<node, state, identity, tree>>
                 ELSE /\ tree' = expand_leaf_modified(tree, takes, node, state)
                      /\ node' = Append(node, Last(tree[node].untried_actions))
                      /\ state' = next_state(state, Head(tree[node].untried_actions))
                      /\ pc' = "simulate"
                      /\ UNCHANGED <<identity, error>>
       ELSE LET id == (current_player(state) = identity)
                r  == best_child_modified(tree, node, id)
            IN  IF r.error # "" THEN Halt(r.error) /\ UNCHANGED <<node, state, identity, tree>>
                ELSE IF r.best = None
                     THEN Halt("TypeError") /\ UNCHANGED <<node, state, identity, tree>>
                     ELSE /\ node' = Append(node, r.best)
                          /\ state' = next_state(state, r.best)
                          /\ identity' = PyInt(id)
                          /\ UNCHANGED <<pc, tree, error>>
    /\ UNCHANGED <<variant, takes, num_nodes, root_state, bot_identity, iter,
                   rollout_state, applied, won, bp_node, best_action>>

\* one call of mcts_modified.traverse_nodes
traverse_nodes_modified ==
    /\ pc = "traverse" /\ variant = "modified"
    /\ IF is_ended(takes, state)
       THEN /\ pc' = "simulate"
            /\ UNCHANGED <<node, state, identity, tree, error>>
       ELSE IF tree[node].child_nodes = <<>>
       THEN IF tree[node].visits = 0
            THEN /\ pc' = "simulate"
                 /\ UNCHANGED <<node, state, identity, tree, error>>
            ELSE IF tree[node].untried_actions = <<>>
                 THEN Halt("UnboundLocalError") /\ UNCHANGED <<node, state, identity, tree>>
                 ELSE LET a == Last(tree[node].untried_actions)
                      IN  /\ tree' = expand_leaf_modified(tree, takes, node, state)
                          /\ node' = Append(node, a)
                          /\ state' = next_state(state, a)
                          /\ pc' = "simulate"
                          /\ UNCHANGED <<identity, error>>
       ELSE LET id == (current_player(state) = identity)
                r  == best_child_modified(tree, node, id)
            IN  IF r.error # "" THEN Halt(r.error) /\ UNCHANGED <<node, state, identity, tree>>
                ELSE IF r.best = None
                     THEN Halt("TypeError") /\ UNCHANGED <<node, state, identity, tree>>
                     ELSE /\ node' = Append(node, r.best)
                          /\ state' = next_state(state, r.best)
                          /\ identity' = PyInt(id)
                          /\ UNCHANGED <<pc, tree, error>>
    /\ UNCHANGED <<variant, takes, num_nodes, root_state, bot_identity, iter,
                   rollout_state, applied, won, bp_node, best_action>>

\* calling expand_leaf(node, board, state) and dropping the pair it returns
expand_leaf_result_dropped ==
    /\ pc = "expand"
    /\ \E a \in Range(tree[node].untried_actions) :
          tree' = expand_leaf_vanilla(tree, takes, node, state, a)
    /\ pc' = "simulate"
    /\ UNCHANGED <<variant, takes, num_nodes, root_state, bot_identity, iter, identity,
                   node, state, rollout_state, applied, won, bp_node, best_action, error>>

\* think of mcts_vanilla: node, state = expand_leaf(node, board, state)
expand_leaf ==
    /\ pc = "expand"
    /\ \E a \in Range(tree[node].untried_actions) :
          /\ tree' = expand_leaf_vanilla(tree, takes, node, state, a)
          /\ node' = Append(node, a)
          /\ state' = next_state(state, a)
    /\ pc' = "simulate"
    /\ UNCHANGED <<variant, takes, num_nodes, root_state, bot_identity, iter, identity,
                   rollout_state, applied, won, bp_node, best_action, error>>

\* rollout(board, state): current_state = state
rollout_call ==
    /\ pc = "simulate"
    /\ rollout_state' = state
    /\ applied' = <<>>
    /\ pc' = "rollout"
    /\ UNCHANGED <<variant, takes, num_nodes, root_state, bot_identity, tree, iter,
                   node, state, identity, won, bp_node, best_action, error>>

\* one turn of rollout's while loop, or its return
rollout ==
    /\ pc = "rollout"
    /\ IF rollout_returns(takes, rollout_state)
       THEN pc' = "is_win" /\ UNCHANGED <<rollout_state, applied, error>>
       ELSE IF legal_actions(takes, rollout_state) = <<>>
       THEN Halt("IndexError") /\ UNCHANGED <<rollout_state, applied>>
       ELSE \E a \in rollout_choices(variant, takes, rollout_state) :
               /\ applied' = <<rollout_state, a>>
               /\ rollout_state' = next_state(rollout_state, a)
               /\ UNCHANGED <<pc, error>>
    /\ UNCHANGED <<variant, takes, num_nodes, root_state, bot_identity, tree, iter,
                   node, state, identity, won, bp_node, best_action>>

\* result = is_win(board, possible_end_state, bot_identity)
is_win ==
    /\ pc = "is_win"
    /\ LET outcome == points_values(takes, rollout_state)
       IN  IF outcome = None
           THEN Halt("AssertionError") /\ UNCHANGED <<won, bp_node>>
           ELSE /\ won' = (outcome[bot_identity] = 1)
                /\ bp_node' = node
                /\ pc' = "backprop"
                /\ UNCHANGED error
    /\ UNCHANGED <<variant, takes, num_nodes, root_state, bot_identity, tree, iter,
                   node, state, identity, rollout_state, applied, best_action>>

\* backpropagate at one node of the path; the call returning ends the iteration
backpropagate ==
    /\ pc = "backprop"
    /\ tree' = IF variant = "vanilla" THEN backpropagate_vanilla(tree, bp_node, won)
               ELSE backpropagate_modified(tree, bp_node, won)
    /\ LET returns == IF variant = "vanilla"
                      THEN bp_node = <<>> \/ Parent(bp_node) = <<>>
                      ELSE bp_node = <<>>
       IN  IF returns
           THEN pc' = "loop" /\ iter' = iter + 1 /\ UNCHANGED bp_node
           ELSE bp_node' = Parent(bp_node) /\ UNCHANGED <<pc, iter>>
    /\ UNCHANGED <<variant, takes, num_nodes, root_state, bot_identity, node, state,
                   identity, rollout_state, applied, won, best_action, error>>

\* best_action = get_best_action(root_node).parent_action; return best_action
think_return ==
    /\ pc = "loop" /\ iter = num_nodes
    /\ LET r == get_best_action(variant, tree, <<>>)
       IN  IF r.error # "" THEN Halt(r.error) /\ UNCHANGED best_action
           ELSE IF r.best = None THEN Halt("AttributeError") /\ UNCHANGED best_action
           ELSE best_action' = r.best /\ pc' = "done" /\ UNCHANGED error
    /\ UNCHANGED <<variant, takes, num_nodes, root_state, bot_identity, tree, iter,
                   node, state, identity, rollout_state, applied, won, bp_node>>

Next ==
    \/ think_iterate
    \/ traverse_nodes_vanilla
    \/ traverse_nodes_modified
    \/ expand_leaf
    \/ rollout_call
    \/ rollout
    \/ is_win
    \/ backpropagate
    \/ think_return

Spec == Init /\ [][Next]_vars

\* think runs to its end: it is sequential code, and no step of it waits on anything
InitFair == Start({"vanilla", "modified"}, 1..MaxIterFair)
FairSpec == InitFair /\ [][Next]_vars /\ WF_vars(Next)

(***************************************************************************)
(* The end-to-end scenario: a start state in which exactly one legal       *)
(* action ends the game at once with a win of the bot, searched for        *)
(* MinIterE2E iterations.                                                  *)
(***************************************************************************)
ImmediateWins(b, s, bot) ==
    {a \in Range(legal_actions(b, s)) :
        /\ is_ended(b, next_state(s, a))
        /\ points_values(b, next_state(s, a))[bot] = 1}

InitE2E ==
    /\ Start({"vanilla", "modified"}, {MinIterE2E})
    /\ Cardinality(ImmediateWins(takes, root_state, bot_identity)) = 1

SpecE2E == InitE2E /\ [][Next]_vars

(***************************************************************************)
(* Properties.                                                             *)
(***************************************************************************)
Root == <<>>
Nodes == DOMAIN tree
Children(p) == {Append(p, tree[p].child_nodes[i]) : i \in 1..Len(tree[p].child_nodes)}
BetweenIterations == pc = "loop"

\* C1: after k completed iterations the root's visits equals k (both variants).
C1_RootVisitsEqualIterations ==
    BetweenIterations => tree[Root].visits = iter

\* C2: from a state with exactly one immediately winning action, after at least
\* 50 iterations think returns that action, whatever the random choices were.
C2_ReturnsTheWinningAction ==
    pc = "done" => best_action \in ImmediateWins(takes, root_state, bot_identity)

\* C3: think completes without raising and returns a legal action of
\* current_state, for every iteration count N >= 1.
C3_ThinkReturnsLegalAction ==
    /\ pc # "error"
    /\ pc = "done" => best_action \in Range(legal_actions(takes, root_state))

\* C4: no division by a zero visit count and no log of zero is evaluated: where
\* ucb divides and takes the log, the node and its parent have visits >= 1, and
\* where the final get_best_action of mcts_modified divides, every child of the
\* root has visits >= 1.
C4_NoZeroVisitsInArithmetic ==
    /\ (pc = "traverse" /\ variant = "vanilla" /\ tree[node].visits # 0)
          => \A c \in Children(node) : tree[c].visits >= 1
    /\ (pc = "traverse" /\ variant = "modified" /\ ~is_ended(takes, state))
          => \A c \in Children(node) : tree[c].visits # 0 => tree[node].visits >= 1
    /\ (pc = "loop" /\ iter = num_nodes /\ variant = "modified")
          => \A c \in Children(Root) : tree[c].visits >= 1
    /\ error \notin {"ZeroDivisionError", "ValueError"}

\* C5: in every reachable state every node satisfies 0 <= wins <= visits.
C5_WinsWithinVisits ==
    \A p \in Nodes : 0 <= tree[p].wins /\ tree[p].wins <= tree[p].visits

C5_Witness ==
    \E p \in Nodes : 0 < tree[p].wins /\ tree[p].wins < tree[p].visits

\* C6: after every completed iteration every non-root node has
\* visits <= parent.visits, the children of the root included.
C6_VisitsWithinParentVisits ==
    BetweenIterations =>
        \A p \in Nodes \ {Root} : tree[p].visits <= tree[Parent(p)].visits

\* C7: for every node, untried_actions and the keys of child_nodes are disjoint
\* and together are the legal actions the node was created with.
C7_UntriedAndChildrenPartition ==
    \A p \in Nodes :
        LET untried == Range(tree[p].untried_actions)
            keys    == Range(tree[p].child_nodes)
        IN  /\ untried \cap keys = {}
            /\ untried \cup keys = Range(legal_actions(takes, StateAt(root_state, p)))

\* C8: the child of the root whose action think returns has a win rate
\* wins/visits at least that of every other child of the root (w1*v2 >= w2*v1).
C8_ReturnedChildHasBestWinrate ==
    pc = "done" =>
        LET b == tree[Append(Root, best_action)]
        IN  \A c \in Children(Root) : b.wins * tree[c].visits >= tree[c].wins * b.visits

C8_Witness ==
    /\ pc = "done"
    /\ LET b == tree[Append(Root, best_action)]
       IN  \E c \in Children(Root) : b.wins * tree[c].visits > tree[c].wins * b.visits

\* The score the selection at node p gave the child under its i-th key: in a
\* descent it is read in the state right after the step into the child, where the
\* tree is unchanged and, in mcts_modified, identity holds the is_opponent flag used.
DescentScore(p, i) ==
    LET c == Append(p, tree[p].child_nodes[i])
    IN  IF variant = "vanilla" THEN ucb_vanilla(tree, c).value
        ELSE ucb_modified(tree, c, identity = 1).value

DescentMax(p) ==
    {i \in 1..Len(tree[p].child_nodes) :
        \A j \in 1..Len(tree[p].child_nodes) : DescentScore(p, i) >= DescentScore(p, j)}

FinalAtLeast(i, j) ==
    LET a == Append(Root, tree[Root].child_nodes[i])
        b == Append(Root, tree[Root].child_nodes[j])
    IN  IF variant = "vanilla"
        THEN ucb_vanilla(tree, a).value >= ucb_vanilla(tree, b).value
        ELSE tree[a].wins * tree[b].visits >= tree[b].wins * tree[a].visits

FinalMax ==
    {i \in 1..Len(tree[Root].child_nodes) :
        \A j \in 1..Len(tree[Root].child_nodes) : FinalAtLeast(i, j)}

Earliest(S) == CHOOSE i \in S : \A j \in S : i <= j
Latest(S) == CHOOSE i \in S : \A j \in S : i >= j
Descended == pc = "traverse" /\ node # Root

C10_RolloutEndsLegally ==
    /\ [](applied # <<>> => applied[2] \in Range(legal_actions(takes, applied[1])))
    /\ [](pc = "is_win" => is_ended(takes, rollout_state))
    /\ (pc = "rollout") ~> (pc = "is_win")

C10_Witness ==
    /\ pc = "is_win"
    /\ variant = "modified"
    /\ applied # <<>>
    /\ applied[1] # state

\* C11: is_win is only ever called on an ended state, so its assertion never
\* fails; and were points_values to return None, is_win raises before
\* backpropagate is called, so no node's visits or wins changes.
C11_IsWinOnlyOnEndedStates ==
    /\ [](pc = "is_win" => points_values(takes, rollout_state) # None)
    /\ [](error # "AssertionError")
    /\ [][(pc = "is_win" /\ pc' = "error") => tree' = tree]_vars

C11_Witness ==
    /\ pc = "backprop"
    /\ bp_node = node
    /\ won
    /\ tree[node].visits = 0

\* C12: backpropagate(node, won) adds 1 to visits, and 1 to wins iff won, at
\* every node of the parent chain from node up to and including the root, and
\* changes nothing else: each step does so at one node and goes on to its
\* parent, and the call returns only after the root.
C12_BackpropagateCountsTheWholeChain ==
    [][pc = "backprop" =>
          /\ tree' = [tree EXCEPT ![bp_node].visits = @ + 1,
                                  ![bp_node].wins = @ + PyInt(won)]
          /\ IF bp_node = Root THEN pc' = "loop"
             ELSE pc' = "backprop" /\ bp_node' = Parent(bp_node)]_vars

\* Whether the selection that led into `node` scored the children with
\* 1 - wins/visits: mcts_vanilla never does, mcts_modified does when is_opponent.
UsedOneMinusWinrate == variant = "modified" /\ identity = 1
ScoredAVisitedChild ==
    /\ Descended
    /\ tree[Parent(node)].visits > 0
    /\ \E c \in Children(Parent(node)) : tree[c].visits > 0

\* C13: at every descent step the exploitation term is wins/visits when the
\* player to move at the node is the bot identity think computed, and
\* 1 - wins/visits when it is the opponent, at every depth.
C13_ScoresFromTheMoversPerspective ==
    ScoredAVisitedChild =>
        (UsedOneMinusWinrate <=>
            current_player(StateAt(root_state, Parent(node))) # bot_identity)

ProperPrefixes(p) == {SubSeq(p, 1, k) : k \in 0..(Len(p) - 1)}

\* C14: traverse_nodes descends into a child only from a fully expanded node
\* (untried_actions empty) whose state is not terminal, so the node it returns
\* is the first on the descent path with an untried action or a terminal state.
C14_DescendsOnlyFromFullyExpanded ==
    pc = "traverse" =>
        \A q \in ProperPrefixes(node) :
            /\ tree[q].untried_actions = <<>>
            /\ ~is_ended(takes, StateAt(root_state, q))

\* C15: the node an iteration rolls out from, and backpropagates from, is a node
\* whose state is terminal or a fresh leaf (visits 0, no children) at the moment
\* the rollout starts; a non-terminal node is never rolled out from twice.
C15_RolloutFromTerminalOrFreshLeaf ==
    pc = "simulate" =>
        \/ is_ended(takes, state)
        \/ tree[node].visits = 0 /\ tree[node].child_nodes = <<>>

C15_Witness ==
    /\ pc = "simulate"
    /\ ~is_ended(takes, state)
    /\ node # Root
    /\ iter >= 2

NewNodes == DOMAIN tree' \ DOMAIN tree
IsPrefixSeq(s, t) == Len(s) <= Len(t) /\ SubSeq(t, 1, Len(s)) = s

\* the step of mcts_vanilla's think that calls expand_leaf
VanillaExpansionAsClaimed ==
    \E a \in Range(tree[node].untried_actions) :
        LET c == Append(node, a)
        IN  /\ a \notin Range(tree[node].child_nodes)
            /\ NewNodes = {c}
            /\ tree'[node].child_nodes = Append(tree[node].child_nodes, a)
            /\ Range(tree'[node].untried_actions) = Range(tree[node].untried_actions) \ {a}
            /\ Len(tree'[node].untried_actions) = Len(tree[node].untried_actions) - 1
            /\ tree'[node].visits = tree[node].visits
            /\ tree'[node].wins = tree[node].wins
            /\ tree'[c] = [visits |-> 0, wins |-> 0, child_nodes |-> <<>>,
                           untried_actions |-> legal_actions(takes, next_state(state, a))]
            /\ node' = c
            /\ state' = next_state(state, a)
            /\ \A q \in DOMAIN tree \ {node} : tree'[q] = tree[q]

\* no step drops or resets a node or a key, and every key a step adds to a
\* node's child_nodes comes with a node that did not exist before
NothingOverwritten ==
    \A q \in DOMAIN tree :
        /\ q \in DOMAIN tree'
        /\ tree'[q].visits >= tree[q].visits
        /\ tree'[q].wins >= tree[q].wins
        /\ IsPrefixSeq(tree[q].child_nodes, tree'[q].child_nodes)
        /\ Len(tree'[q].child_nodes) - Len(tree[q].child_nodes)
              = Cardinality({c \in NewNodes : Len(c) > 0 /\ Parent(c) = q})

\* C16: mcts_vanilla.expand_leaf adds exactly one child, for an action that was
\* untried and was no key of child_nodes, removes exactly that action from
\* untried_actions, creates the child fresh with the legal actions of its state,
\* returns that state and leaves the other nodes unchanged; and in both
\* variants no expansion overwrites an existing child_nodes entry.
C16_ExpansionAddsWithoutOverwriting ==
    [][/\ pc = "expand" => VanillaExpansionAsClaimed
       /\ NothingOverwritten]_vars

C16_Witness ==
    /\ pc = "simulate"
    /\ variant = "vanilla"
    /\ node # Root
    /\ tree[node].visits = 0
    /\ tree[Parent(node)].untried_actions # <<>>
    /\ Len(node) >= 2

\* C17: mcts_modified.traverse_nodes descends into a child without visits
\* whenever the node has one, so at every node each child is visited once
\* before any child of that node is visited a second time.
C17_UnvisitedChildrenFirst ==
    variant = "modified" =>
        /\ Descended =>
              ((\E c \in Children(Parent(node)) : tree[c].visits = 0)
                  => tree[node].visits = 0)
        /\ \A p \in Nodes :
              (\E c \in Children(p) : tree[c].visits >= 2)
                  => \A c \in Children(p) : tree[c].visits >= 1

C17_Witness ==
    /\ variant = "modified"
    /\ Descended
    /\ tree[node].visits = 0
    /\ \E c \in Children(Parent(node)) : tree[c].visits >= 1

\* C18: in both variants the state that travels with a node through
\* traverse_nodes and expand_leaf, and that rollout starts from, is the root
\* state advanced by the parent_action of every node on the path from the
\* root to that node, the last child of the bulk expansion included.
C18_StateMatchesThePathOfTheNode ==
    /\ pc \in {"traverse", "expand", "simulate"} => state = StateAt(root_state, node)
    /\ (pc = "rollout" /\ applied = <<>>) => rollout_state = StateAt(root_state, node)

C18_Witness ==
    /\ pc = "rollout"
    /\ applied = <<>>
    /\ variant = "modified"
    /\ Len(node) >= 2
    /\ tree[node].visits = 0
    /\ Len(tree[Parent(node)].child_nodes) >= 2
    /\ node = Append(Parent(node), Last(tree[Parent(node)].child_nodes))

RootExpanded == iter >= 2 \/ (iter = 1 /\ pc \notin {"traverse", "expand"})

RECURSIVE ChildVisits(_, _)
ChildVisits(p, i) ==
    IF i = 0 THEN 0
    ELSE tree[Append(p, tree[p].child_nodes[i])].visits + ChildVisits(p, i - 1)

HasChildren(p) == tree[p].child_nodes # <<>>

\* C20: in mcts_modified, after every completed iteration of think, every node
\* that has children has one visit more than its children have together, and
\* has a child for every action in its untried_actions.
C20_ChildVisitsSumToVisitsMinusOne ==
    (variant = "modified" /\ pc \in {"loop", "done"}) =>
        \A p \in Nodes : HasChildren(p) =>
            /\ ChildVisits(p, Len(tree[p].child_nodes)) = tree[p].visits - 1
            /\ Range(tree[p].untried_actions) \subseteq Range(tree[p].child_nodes)

C20_Witness ==
    /\ variant = "modified"
    /\ pc = "loop"
    /\ \E p \in Nodes : /\ p # Root
                        /\ Len(tree[p].child_nodes) >= 2
                        /\ tree[p].visits >= 3
                        /\ tree[p].untried_actions # <<>>
====
